---------------------------- MODULE Spec2Model ----------------------------
(***************************************************************************)
(* Inventory dashboard: the catalog held by App (src/App.tsx), the product *)
(* form of ProductModal (src/unnamed/part_001), the table state of         *)
(* InventoryTable (src/components/StatCard.tsx, lines 31-391) and the      *)
(* derived dashboard values.                                               *)
(*                                                                         *)
(* Representation.  Text values (name, sku, description, search text) are  *)
(* TLA+ strings in the state; Chars gives the characters of each text the  *)
(* model uses, and the string functions of the code (toLowerCase,          *)
(* includes) work on those characters.  A price is a whole number of cents *)
(* (349.99 is 34999).  A time is a whole number of clock ticks, and        *)
(* lastUpdated holds the tick at which new Date() was read.                *)
(* A value that may be null is a sequence of length 0 or 1.                *)
(***************************************************************************)
EXTENDS Integers, Sequences, FiniteSets, TLC

VARIABLES
    products,           \* App: useState<Product[]>(INITIAL_PRODUCTS)
    activeView,         \* App: useState<ViewState>
    isModalOpen,        \* App: useState(false)
    editingProduct,     \* App: useState<Product | null>, << >> is null
    formData,           \* ProductModal: useState<Partial<Product>>
    isSuggestingPrice,  \* ProductModal: useState(false)
    isGeneratingDesc,   \* ProductModal: useState(false)
    aiAnalysis,         \* App: useState<string>(''), with what the text reports on
    isAnalyzing,        \* App: useState(false)
    calls,              \* the calls of the AI service that have not completed yet
    requests,           \* how many requests ai.models.generateContent has been sent
    download,           \* the text of the last file the export handed to the browser
    searchTerm,         \* InventoryTable
    categoryFilter,     \* InventoryTable
    stockFilter,        \* InventoryTable
    selectedIds,        \* InventoryTable: Set<string>
    isBatchMenuOpen,    \* InventoryTable
    now,                \* the clock new Date() reads
    uuids,              \* how many ids crypto.randomUUID() has handed out
    steps,              \* number of events handled so far
    lastOp,             \* history variable: the last event and the catalog before it
    ref                 \* history variable: the reference list the events are replayed on

vars == << products, activeView, isModalOpen, editingProduct, formData,
           isSuggestingPrice, searchTerm, categoryFilter, stockFilter,
           selectedIds, isBatchMenuOpen, now, uuids, steps, lastOp, ref,
           isGeneratingDesc, aiAnalysis, isAnalyzing, calls, requests, download >>

(***************************************************************************)
(* Bounds of the model.                                                    *)
(***************************************************************************)
\* events explored from the initial state by the interface specification
MaxSteps == 5
\* store operations explored from the initial catalog by SpecStore
MaxOps == 3
\* longest catalog (beside the initial one) that SpecView draws
MaxCatalog == 3
\* filter changes SpecView explores on each catalog: one per control
MaxViewSteps == 3
\* table events SpecTable explores from each drawn state of the table
MaxTableSteps == 2

(***************************************************************************)
(* types.ts (src/unnamed/part_002)                                         *)
(***************************************************************************)
Category == { "Electronics", "Furniture", "Clothing", "Office Supplies", "Other" }

ViewState == { "DASHBOARD", "INVENTORY", "AI_INSIGHTS" }

(***************************************************************************)
(* Characters of the texts of the model.                                   *)
(***************************************************************************)
UpperAlpha == << "A","B","C","D","E","F","G","H","I","J","K","L","M",
                 "N","O","P","Q","R","S","T","U","V","W","X","Y","Z" >>

LowerAlpha == << "a","b","c","d","e","f","g","h","i","j","k","l","m",
                 "n","o","p","q","r","s","t","u","v","w","x","y","z" >>

Chars(s) ==
    CASE s = "" -> << >>
      [] s = "Ergo Chair Ultra" ->
            << "E","r","g","o"," ","C","h","a","i","r"," ","U","l","t","r",
               "a" >>
      [] s = "Wireless Mech Keyboard" ->
            << "W","i","r","e","l","e","s","s"," ","M","e","c","h"," ","K",
               "e","y","b","o","a","r","d" >>
      [] s = "Standing Desk Frame" ->
            << "S","t","a","n","d","i","n","g"," ","D","e","s","k"," ","F",
               "r","a","m","e" >>
      [] s = "USB-C Docking Station" ->
            << "U","S","B","-","C"," ","D","o","c","k","i","n","g"," ","S",
               "t","a","t","i","o","n" >>
      [] s = "Cotton Hoodie" ->
            << "C","o","t","t","o","n"," ","H","o","o","d","i","e" >>
      [] s = "desk lamp" ->
            << "d","e","s","k"," ","l","a","m","p" >>
      [] s = "Untitled" ->
            << "U","n","t","i","t","l","e","d" >>
      [] s = "FUR-001" ->
            << "F","U","R","-","0","0","1" >>
      [] s = "ELE-045" ->
            << "E","L","E","-","0","4","5" >>
      [] s = "FUR-022" ->
            << "F","U","R","-","0","2","2" >>
      [] s = "ELE-102" ->
            << "E","L","E","-","1","0","2" >>
      [] s = "CLO-552" ->
            << "C","L","O","-","5","5","2" >>
      [] s = "dsk-7" ->
            << "d","s","k","-","7" >>
      [] s = "N/A" ->
            << "N","/","A" >>
      [] s = "desk" ->
            << "d","e","s","k" >>
      [] s = "DESK" ->
            << "D","E","S","K" >>
      [] s = "ele" ->
            << "e","l","e" >>
      [] s = "Fur-0" ->
            << "F","u","r","-","0" >>
      [] s = "zzz" ->
            << "z","z","z" >>
      [] s = "1" ->
            << "1" >>
      [] s = "2" ->
            << "2" >>
      [] s = "3" ->
            << "3" >>
      [] s = "4" ->
            << "4" >>
      [] s = "5" ->
            << "5" >>
      [] s = "uuid-a" ->
            << "u","u","i","d","-","a" >>
      [] s = "uuid-b" ->
            << "u","u","i","d","-","b" >>
      [] s = "uuid-c" ->
            << "u","u","i","d","-","c" >>
      [] s = "uuid-d" ->
            << "u","u","i","d","-","d" >>
      [] s = "uuid-e" ->
            << "u","u","i","d","-","e" >>
      [] s = "uuid-f" ->
            << "u","u","i","d","-","f" >>
      [] s = "uuid-g" ->
            << "u","u","i","d","-","g" >>
      [] s = "uuid-h" ->
            << "u","u","i","d","-","h" >>
      [] s = "Electronics" ->
            << "E","l","e","c","t","r","o","n","i","c","s" >>
      [] s = "Furniture" ->
            << "F","u","r","n","i","t","u","r","e" >>
      [] s = "Clothing" ->
            << "C","l","o","t","h","i","n","g" >>
      [] s = "Office Supplies" ->
            << "O","f","f","i","c","e"," ","S","u","p","p","l","i","e",
               "s" >>
      [] s = "Other" ->
            << "O","t","h","e","r" >>
      [] s = "High-end ergonomic office chair with lumbar support." ->
            << "H","i","g","h","-","e","n","d"," ","e","r","g","o","n","o",
               "m","i","c"," ","o","f","f","i","c","e"," ","c","h","a","i",
               "r"," ","w","i","t","h"," ","l","u","m","b","a","r"," ","s",
               "u","p","p","o","r","t","." >>
      [] s = "Mechanical keyboard with RGB and brown switches." ->
            << "M","e","c","h","a","n","i","c","a","l"," ","k","e","y","b",
               "o","a","r","d"," ","w","i","t","h"," ","R","G","B"," ","a",
               "n","d"," ","b","r","o","w","n"," ","s","w","i","t","c","h",
               "e","s","." >>
      [] s = "Dual motor electric standing desk frame." ->
            << "D","u","a","l"," ","m","o","t","o","r"," ","e","l","e","c",
               "t","r","i","c"," ","s","t","a","n","d","i","n","g"," ","d",
               "e","s","k"," ","f","r","a","m","e","." >>
      [] s = "12-in-1 docking station for laptops." ->
            << "1","2","-","i","n","-","1"," ","d","o","c","k","i","n","g",
               " ","s","t","a","t","i","o","n"," ","f","o","r"," ","l","a",
               "p","t","o","p","s","." >>
      [] s = "Premium heavyweight cotton hoodie." ->
            << "P","r","e","m","i","u","m"," ","h","e","a","v","y","w","e",
               "i","g","h","t"," ","c","o","t","t","o","n"," ","h","o","o",
               "d","i","e","." >>
      [] s = "6\" Widget" ->
            << "6","\""," ","W","i","d","g","e","t" >>
      [] s = "W,6" ->
            << "W",",","6" >>
      [] s = "7\" tall, \"mini\"" ->
            << "7","\""," ","t","a","l","l",","," ","\"","m","i","n","i",
               "\"" >>
      [] s = "Bright LED desk lamp." ->
            << "B","r","i","g","h","t"," ","L","E","D"," ","d","e","s","k",
               " ","l","a","m","p","." >>
      [] s = "No description generated." ->
            << "N","o"," ","d","e","s","c","r","i","p","t","i","o","n"," ",
               "g","e","n","e","r","a","t","e","d","." >>
      [] s = "Failed to generate description via AI." ->
            << "F","a","i","l","e","d"," ","t","o"," ","g","e","n","e","r",
               "a","t","e"," ","d","e","s","c","r","i","p","t","i","o","n",
               " ","v","i","a"," ","A","I","." >>
      [] s = "ID" ->
            << "I","D" >>
      [] s = "Name" ->
            << "N","a","m","e" >>
      [] s = "SKU" ->
            << "S","K","U" >>
      [] s = "Category" ->
            << "C","a","t","e","g","o","r","y" >>
      [] s = "Price" ->
            << "P","r","i","c","e" >>
      [] s = "Quantity" ->
            << "Q","u","a","n","t","i","t","y" >>
      [] s = "Description" ->
            << "D","e","s","c","r","i","p","t","i","o","n" >>
      [] s = "Last Updated" ->
            << "L","a","s","t"," ","U","p","d","a","t","e","d" >>

\* String.prototype.toLowerCase, on one character and on a text
LowerTable ==
    [ c \in { UpperAlpha[i] : i \in 1..26 } |->
        LowerAlpha[CHOOSE i \in 1..26 : UpperAlpha[i] = c] ]

LowerChar(c) == IF c \in DOMAIN LowerTable THEN LowerTable[c] ELSE c

toLowerCase(cs) == [ i \in 1..Len(cs) |-> LowerChar(cs[i]) ]

\* String.prototype.includes: t occurs in s as a contiguous run of characters
includes(s, t) ==
    \E i \in 0..(Len(s) - Len(t)) : SubSeq(s, i + 1, i + Len(t)) = t

(***************************************************************************)
(* App.tsx: the mock data the catalog starts from.                         *)
(***************************************************************************)
INITIAL_PRODUCTS ==
    << [ id |-> "1", name |-> "Ergo Chair Ultra", sku |-> "FUR-001",
         category |-> "Furniture", price |-> 34999, quantity |-> 15,
         description |-> "High-end ergonomic office chair with lumbar support.",
         lastUpdated |-> 0, history |-> << 12, 15, 13, 18, 15, 20, 15 >> ],
       [ id |-> "2", name |-> "Wireless Mech Keyboard", sku |-> "ELE-045",
         category |-> "Electronics", price |-> 12950, quantity |-> 4,
         description |-> "Mechanical keyboard with RGB and brown switches.",
         lastUpdated |-> 0, history |-> << 8, 6, 5, 7, 5, 4, 4 >> ],
       [ id |-> "3", name |-> "Standing Desk Frame", sku |-> "FUR-022",
         category |-> "Furniture", price |-> 29900, quantity |-> 8,
         description |-> "Dual motor electric standing desk frame.",
         lastUpdated |-> 0, history |-> << 5, 8, 12, 10, 9, 8, 8 >> ],
       [ id |-> "4", name |-> "USB-C Docking Station", sku |-> "ELE-102",
         category |-> "Electronics", price |-> 8999, quantity |-> 42,
         description |-> "12-in-1 docking station for laptops.",
         lastUpdated |-> 0, history |-> << 30, 35, 32, 40, 45, 42, 42 >> ],
       [ id |-> "5", name |-> "Cotton Hoodie", sku |-> "CLO-552",
         category |-> "Clothing", price |-> 4500, quantity |-> 120,
         description |-> "Premium heavyweight cotton hoodie.",
         lastUpdated |-> 0, history |-> << 150, 140, 135, 130, 125, 120, 120 >> ] >>

\* the ids crypto.randomUUID() hands out, in the order of the calls: each
\* call returns a value no earlier call returned, and none is "1".."5"
UUIDS == << "uuid-a", "uuid-b", "uuid-c", "uuid-d", "uuid-e", "uuid-f",
            "uuid-g", "uuid-h" >>

randomUUID(n) == UUIDS[n + 1]


(***************************************************************************)
(* ProductModal (src/unnamed/part_001)                                     *)
(***************************************************************************)
\* the form a closed modal or an "add" modal holds (useState and useEffect)
BlankForm ==
    [ name |-> "", sku |-> "", category |-> "Other", price |-> 0,
      quantity |-> 0, description |-> "", history |-> << >> ]

\* useEffect on [initialProduct, isOpen]: the form is reset to the product
\* being edited, or to the blank form.  Of the copied product only the
\* fields handleSubmit reads are kept (it never reads formData.id or
\* formData.lastUpdated); a missing history is << >>, which is what
\* "formData.history || []" makes of it.
ResetForm(initialProduct) ==
    IF initialProduct # << >>
    THEN [ name |-> initialProduct[1].name, sku |-> initialProduct[1].sku,
           category |-> initialProduct[1].category,
           price |-> initialProduct[1].price,
           quantity |-> initialProduct[1].quantity,
           description |-> initialProduct[1].description,
           history |-> initialProduct[1].history ]
    ELSE BlankForm

\* "parseFloat(value) || 0" on the text of a number input: the text is
\* empty (<< >>, parseFloat gives NaN) or the digits of one number (<< n >>)
ParseFloatOr0(num) == IF num = << >> THEN 0 ELSE num[1]

\* handleChange: one field of the form takes the value of the event.  An
\* event is [field, text, num]: text for a text field, num for a number field.
handleChange(fd, e) ==
    CASE e.field = "price"       -> [ fd EXCEPT !.price = ParseFloatOr0(e.num) ]
      [] e.field = "quantity"    -> [ fd EXCEPT !.quantity = ParseFloatOr0(e.num) ]
      [] e.field = "name"        -> [ fd EXCEPT !.name = e.text ]
      [] e.field = "sku"         -> [ fd EXCEPT !.sku = e.text ]
      [] e.field = "category"    -> [ fd EXCEPT !.category = e.text ]
      [] e.field = "description" -> [ fd EXCEPT !.description = e.text ]

\* The browser's check of the form before it fires onSubmit: name, sku,
\* price and quantity are "required", price and quantity have min="0".
FormValidNoMin(fd) == fd.name # "" /\ fd.sku # ""

FormValid(fd) ==
    /\ fd.name # ""
    /\ fd.sku # ""
    /\ fd.price >= 0
    /\ fd.quantity >= 0

\* handleSubmit: the product handed to onSave.  uuid is what
\* crypto.randomUUID() would return, t is what new Date() reads.
handleSubmit(initialProduct, fd, uuid, t) ==
    [ id          |-> IF initialProduct # << >> /\ initialProduct[1].id # ""
                      THEN initialProduct[1].id ELSE uuid,
      name        |-> IF fd.name # "" THEN fd.name ELSE "Untitled",
      sku         |-> IF fd.sku # "" THEN fd.sku ELSE "N/A",
      category    |-> IF fd.category # "" THEN fd.category ELSE "Other",
      price       |-> fd.price,
      quantity    |-> fd.quantity,
      description |-> fd.description,
      lastUpdated |-> t,
      history     |-> fd.history ]

\* Number(avgPrice.toFixed(2)) of (min + max) / 2, in cents.  toFixed rounds
\* the binary value of the average, so a half cent goes down or up
SuggestedPrices(s) == { (s.min + s.max) \div 2, (s.min + s.max + 1) \div 2 }

(***************************************************************************)
(* App.tsx: the catalog handlers, as functions of the catalog they update. *)
(***************************************************************************)
\* a faulty save that adds the product whether or not one is being edited
SaveAlwaysAppends(prev, editing, product) == Append(prev, product)

\* a faulty save that moves the edited product to the end of the catalog
SaveMovesToEnd(prev, editing, product) ==
    IF editing # << >>
    THEN Append(SelectSeq(prev, LAMBDA p : p.id # product.id), product)
    ELSE Append(prev, product)

\* handleSaveProduct: setProducts of the edit branch or of the add branch
handleSaveProduct(prev, editing, product) ==
    IF editing # << >>
    THEN [ i \in 1..Len(prev) |->
             IF prev[i].id = product.id THEN product ELSE prev[i] ]
    ELSE Append(prev, product)

\* a faulty delete that splices at findIndex: an id that is not found gives
\* index -1, and splice(-1, 1) takes the last record out
DeleteBySplice(prev, id, confirmed) ==
    IF ~confirmed \/ prev = << >> THEN prev
    ELSE IF \E i \in 1..Len(prev) : prev[i].id = id
         THEN SelectSeq(prev, LAMBDA p : p.id # id)
         ELSE SubSeq(prev, 1, Len(prev) - 1)

\* handleDeleteProduct, confirmed being the answer of window.confirm
handleDeleteProduct(prev, id, confirmed) ==
    IF confirmed THEN SelectSeq(prev, LAMBDA p : p.id # id) ELSE prev

\* a faulty batch delete that keeps the selected records and drops the rest
BatchDeleteInverted(prev, ids, confirmed) ==
    IF confirmed THEN SelectSeq(prev, LAMBDA p : p.id \in ids) ELSE prev

\* a faulty batch delete that gives up when an id of ids has no record
BatchDeleteStopsAtMissing(prev, ids, confirmed) ==
    IF confirmed /\ \A id \in ids : \E i \in 1..Len(prev) : prev[i].id = id
    THEN SelectSeq(prev, LAMBDA p : p.id \notin ids)
    ELSE prev

\* handleBatchDelete: ids is the array Array.from(selectedIds)
handleBatchDelete(prev, ids, confirmed) ==
    IF confirmed THEN SelectSeq(prev, LAMBDA p : p.id \notin ids) ELSE prev

\* a faulty batch update that also empties the history of the records it touches
BatchLowStockDropsHistory(prev, ids) ==
    [ i \in 1..Len(prev) |->
        IF prev[i].id \in ids
        THEN [ prev[i] EXCEPT !.quantity = 5, !.history = << >> ]
        ELSE prev[i] ]

\* handleBatchLowStock: { ...p, quantity: 5 } for the records of ids
handleBatchLowStock(prev, ids) ==
    [ i \in 1..Len(prev) |->
        IF prev[i].id \in ids THEN [ prev[i] EXCEPT !.quantity = 5 ] ELSE prev[i] ]


(***************************************************************************)
(* App.tsx: the values derived from the catalog (useMemo on [products]).   *)
(***************************************************************************)
\* products.reduce((acc, p) => acc + (p.price * p.quantity), 0), from record i on
RECURSIVE reduceValue(_, _, _)
reduceValue(ps, i, acc) ==
    IF i > Len(ps) THEN acc
    ELSE reduceValue(ps, i + 1, acc + (ps[i].price * ps[i].quantity))

\* faulty statistics whose low-stock count leaves out the records of quantity 0
StatsLowExcludesZero(ps) ==
    [ totalProducts   |-> Len(ps),
      totalValue      |-> reduceValue(ps, 1, 0),
      lowStockItems   |-> Len(SelectSeq(ps, LAMBDA p : p.quantity > 0 /\ p.quantity < 10)),
      outOfStockItems |-> Len(SelectSeq(ps, LAMBDA p : p.quantity = 0)) ]

\* faulty statistics whose low-stock count takes in the records of quantity 10
StatsLowUpToTen(ps) ==
    [ totalProducts   |-> Len(ps),
      totalValue      |-> reduceValue(ps, 1, 0),
      lowStockItems   |-> Len(SelectSeq(ps, LAMBDA p : p.quantity <= 10)),
      outOfStockItems |-> Len(SelectSeq(ps, LAMBDA p : p.quantity = 0)) ]

stats(ps) ==
    [ totalProducts   |-> Len(ps),
      totalValue      |-> reduceValue(ps, 1, 0),
      lowStockItems   |-> Len(SelectSeq(ps, LAMBDA p : p.quantity < 10)),
      outOfStockItems |-> Len(SelectSeq(ps, LAMBDA p : p.quantity = 0)) ]

\* products.forEach(p => counts[p.category] = (counts[p.category] || 0) + 1),
\* from record i on.  counts is the object as the sequence of its entries in
\* the order of Object.keys, which is the order the keys were first set in.
RECURSIVE countCategories(_, _, _)
countCategories(ps, i, counts) ==
    IF i > Len(ps) THEN counts
    ELSE LET c == ps[i].category
         IN  countCategories(ps, i + 1,
                IF \E j \in 1..Len(counts) : counts[j].name = c
                THEN [ j \in 1..Len(counts) |->
                         IF counts[j].name = c
                         THEN [ counts[j] EXCEPT !.value = @ + 1 ]
                         ELSE counts[j] ]
                ELSE Append(counts, [ name |-> c, value |-> 1 ]))

\* a faulty breakdown that starts from an entry of value 0 for every category
CategoryDataZeroFilled(ps) ==
    countCategories(ps, 1,
        << [ name |-> "Electronics", value |-> 0 ],
           [ name |-> "Furniture", value |-> 0 ],
           [ name |-> "Clothing", value |-> 0 ],
           [ name |-> "Office Supplies", value |-> 0 ],
           [ name |-> "Other", value |-> 0 ] >>)

categoryData(ps) == countCategories(ps, 1, << >>)

(***************************************************************************)
(* InventoryTable (src/components/StatCard.tsx): the filtered view.        *)
(***************************************************************************)
matchesSearch(p, search) ==
    \/ includes(toLowerCase(Chars(p.name)), toLowerCase(Chars(search)))
    \/ includes(toLowerCase(Chars(p.sku)), toLowerCase(Chars(search)))

matchesCategory(p, catFilter) == catFilter = "All" \/ p.category = catFilter

\* a faulty bucket test whose "Low Stock" takes in the records of quantity 0
MatchesStockLowIncludesZero(p, stFilter) ==
    IF stFilter = "In Stock" THEN p.quantity >= 10
    ELSE IF stFilter = "Low Stock" THEN p.quantity < 10
    ELSE IF stFilter = "Out of Stock" THEN p.quantity = 0
    ELSE TRUE

matchesStock(p, stFilter) ==
    IF stFilter = "In Stock" THEN p.quantity >= 10
    ELSE IF stFilter = "Low Stock" THEN p.quantity > 0 /\ p.quantity < 10
    ELSE IF stFilter = "Out of Stock" THEN p.quantity = 0
    ELSE TRUE

filteredProducts(ps, search, catFilter, stFilter) ==
    SelectSeq(ps, LAMBDA p : /\ matchesSearch(p, search)
                             /\ matchesCategory(p, catFilter)
                             /\ matchesStock(p, stFilter))


(***************************************************************************)
(* InventoryTable: handleExportCSV.  The text is a sequence of characters. *)
(***************************************************************************)
DigitChars == << "0", "1", "2", "3", "4", "5", "6", "7", "8", "9" >>

\* the decimal digits of a natural number, as Number.prototype.toString writes them
RECURSIVE NatToString(_)
NatToString(n) ==
    IF n < 10 THEN << DigitChars[n + 1] >>
    ELSE NatToString(n \div 10) \o << DigitChars[(n % 10) + 1] >>

\* a quantity, as join writes the number
QuantityToString(q) ==
    IF q < 0 THEN << "-" >> \o NatToString(0 - q) ELSE NatToString(q)

\* a price, as join writes the number: the price is held in cents, and the
\* number 349.99 is written 349.99, 129.5 is written 129.5, 299 is written 299
PriceToString(c) ==
    LET a     == IF c < 0 THEN 0 - c ELSE c
        sign  == IF c < 0 THEN << "-" >> ELSE << >>
        whole == NatToString(a \div 100)
        f     == a % 100
    IN  IF f = 0 THEN sign \o whole
        ELSE IF f % 10 = 0 THEN sign \o whole \o << ".", DigitChars[(f \div 10) + 1] >>
        ELSE sign \o whole \o << ".", DigitChars[(f \div 10) + 1], DigitChars[(f % 10) + 1] >>

\* Date.prototype.toISOString of the clock tick t, ticks being the seconds
\* after 1970-01-01T00:00:00.000Z (t below 60)
toISOString(t) ==
    << "1","9","7","0","-","0","1","-","0","1","T","0","0",":","0","0",":" >>
       \o << DigitChars[(t \div 10) + 1], DigitChars[(t % 10) + 1] >>
       \o << ".","0","0","0","Z" >>

\* text.replace(/"/g, '""')
RECURSIVE replaceQuotes(_)
replaceQuotes(cs) ==
    IF cs = << >> THEN << >>
    ELSE (IF Head(cs) = "\"" THEN << "\"", "\"" >> ELSE << Head(cs) >>)
            \o replaceQuotes(Tail(cs))

\* `"${text.replace(/"/g, '""')}"`
quoted(cs) == << "\"" >> \o replaceQuotes(cs) \o << "\"" >>

\* Array.prototype.join of texts
RECURSIVE join(_, _)
join(parts, sep) ==
    IF parts = << >> THEN << >>
    ELSE IF Len(parts) = 1 THEN parts[1]
    ELSE parts[1] \o sep \o join(Tail(parts), sep)

csvHeaders ==
    << "ID", "Name", "SKU", "Category", "Price", "Quantity", "Description",
       "Last Updated" >>

\* a faulty row that writes the category before the sku
CsvRowCategoryBeforeSku(p) ==
    join(<< Chars(p.id), quoted(Chars(p.name)), Chars(p.category), Chars(p.sku),
            PriceToString(p.price), QuantityToString(p.quantity),
            quoted(Chars(p.description)), toISOString(p.lastUpdated) >>, << "," >>)

\* the row of one product: only name and description are quoted
csvRow(p) ==
    join(<< Chars(p.id), quoted(Chars(p.name)), Chars(p.sku), Chars(p.category),
            PriceToString(p.price), QuantityToString(p.quantity),
            quoted(Chars(p.description)), toISOString(p.lastUpdated) >>, << "," >>)

csvContent(fv) ==
    join(<< join([ i \in 1..Len(csvHeaders) |-> Chars(csvHeaders[i]) ], << "," >>) >>
            \o [ i \in 1..Len(fv) |-> csvRow(fv[i]) ],
         << "\n" >>)

\* handleExportCSV: the files handed to the browser by one click, none for
\* an empty filtered view
handleExportCSV(fv) ==
    IF Len(fv) = 0 THEN << >> ELSE << csvContent(fv) >>


(***************************************************************************)
(* The reference list of the catalog contract (spec, section 4.1): add     *)
(* appends, update replaces the record of that id where it stands, delete  *)
(* takes the record of that id out.  An id the list does not hold changes  *)
(* nothing.                                                                *)
(***************************************************************************)
RefIndex(list, id) == CHOOSE i \in 1..Len(list) : list[i].id = id

RefHas(list, id) == \E i \in 1..Len(list) : list[i].id = id

RefAdd(list, rec) == list \o << rec >>

RefUpdate(list, rec) ==
    IF RefHas(list, rec.id)
    THEN [ list EXCEPT ![RefIndex(list, rec.id)] = rec ]
    ELSE list

RefDelete(list, id) ==
    IF RefHas(list, id)
    THEN SubSeq(list, 1, RefIndex(list, id) - 1)
            \o SubSeq(list, RefIndex(list, id) + 1, Len(list))
    ELSE list

(***************************************************************************)
(* History variable lastOp.                                                *)
(***************************************************************************)
\* sel is the selection the event found
Op(kind, id, ids, rec, confirmed, prev, repeat) ==
    [ kind |-> kind, id |-> id, ids |-> ids, rec |-> rec,
      confirmed |-> confirmed, prev |-> prev, repeat |-> repeat,
      sel |-> selectedIds ]

Ids(ps) == { ps[i].id : i \in 1..Len(ps) }

\* the text of the analysis panel and what the text reports on: '' at first
NoAnalysis == [ text |-> "", about |-> << >> ]

\* state of the AI calls and of the export
extVars == << isGeneratingDesc, aiAnalysis, isAnalyzing, calls, requests, download >>

(***************************************************************************)
(* Initial state: App, ProductModal and InventoryTable after construction. *)
(***************************************************************************)
Init ==
    /\ products = INITIAL_PRODUCTS
    /\ activeView = "DASHBOARD"
    /\ isModalOpen = FALSE
    /\ editingProduct = << >>
    /\ formData = BlankForm
    /\ isSuggestingPrice = FALSE
    /\ searchTerm = ""
    /\ categoryFilter = "All"
    /\ stockFilter = "All"
    /\ selectedIds = {}
    /\ isBatchMenuOpen = FALSE
    /\ now = 0
    /\ uuids = 0
    /\ steps = 0
    /\ lastOp = Op("init", "", {}, << >>, FALSE, INITIAL_PRODUCTS, FALSE)
    /\ ref = INITIAL_PRODUCTS
    /\ isGeneratingDesc = FALSE
    /\ aiAnalysis = NoAnalysis
    /\ isAnalyzing = FALSE
    /\ calls = {}
    /\ requests = 0
    /\ download = << >>

tableVars == << searchTerm, categoryFilter, stockFilter, selectedIds, isBatchMenuOpen >>

modalVars == << isModalOpen, editingProduct, formData, isSuggestingPrice >>

(***************************************************************************)
(* Inputs of the store operations.                                         *)
(***************************************************************************)
\* the ids the operations are aimed at: two records of the initial catalog
\* and the first id randomUUID hands out (no record has it before the first add)
TargetIds == { "2", "3", randomUUID(0) }

EvName  == [ field |-> "name", text |-> "desk lamp", num |-> << >> ]
EvSku   == [ field |-> "sku", text |-> "dsk-7", num |-> << >> ]
EvQty0  == [ field |-> "quantity", text |-> "", num |-> << 0 >> ]
EvQty12 == [ field |-> "quantity", text |-> "", num |-> << 12 >> ]

\* what the user types into the form before saving it
StoreScripts == { << >>, << EvQty0 >>, << EvName, EvSku, EvQty12 >> }

RECURSIVE ApplyScript(_, _)
ApplyScript(fd, script) ==
    IF script = << >> THEN fd
    ELSE ApplyScript(handleChange(fd, Head(script)), Tail(script))

\* the products an edit may be aimed at: a record of the catalog, or a
\* record of the initial catalog that has been deleted since the modal opened
StoreEditTargets ==
    { products[i] : i \in { j \in 1..Len(products) : products[j].id \in TargetIds } }
      \cup { INITIAL_PRODUCTS[i] : i \in { j \in 1..Len(INITIAL_PRODUCTS) :
                /\ INITIAL_PRODUCTS[j].id \in TargetIds
                /\ INITIAL_PRODUCTS[j].id \notin Ids(products) } }

(***************************************************************************)
(* The store operations, each one call of a handler of App with its        *)
(* arguments drawn from the handler's parameter type.  A save is the       *)
(* modal session that ends in it: openAddModal or openEditModal, the       *)
(* handleChange events, handleSubmit and handleSaveProduct.                *)
(***************************************************************************)
StoreAdd ==
    /\ steps < MaxOps
    /\ \E script \in StoreScripts, dt \in 0..1 :
         LET fd == ApplyScript(ResetForm(<< >>), script)
             product == handleSubmit(<< >>, fd, randomUUID(uuids), now + dt)
         IN  /\ FormValid(fd)
             /\ products' = handleSaveProduct(products, << >>, product)
             /\ ref' = RefAdd(ref, product)
             /\ lastOp' = Op("add", product.id, {}, << product >>, TRUE, products, FALSE)
             /\ now' = now + dt
    /\ uuids' = uuids + 1
    /\ steps' = steps + 1
    /\ isModalOpen' = FALSE
    /\ editingProduct' = << >>
    /\ formData' = BlankForm
    /\ UNCHANGED << extVars, activeView, isSuggestingPrice, tableVars >>

StoreUpdate ==
    /\ steps < MaxOps
    /\ \E target \in StoreEditTargets, script \in StoreScripts, dt \in 0..1 :
         LET fd == ApplyScript(ResetForm(<< target >>), script)
             product == handleSubmit(<< target >>, fd, randomUUID(uuids), now + dt)
         IN  /\ FormValid(fd)
             /\ products' = handleSaveProduct(products, << target >>, product)
             /\ ref' = RefUpdate(ref, product)
             /\ lastOp' = Op("update", product.id, {}, << product >>, TRUE, products, FALSE)
             /\ now' = now + dt
    /\ steps' = steps + 1
    /\ isModalOpen' = FALSE
    /\ editingProduct' = << >>
    /\ formData' = BlankForm
    /\ UNCHANGED << extVars, activeView, isSuggestingPrice, tableVars, uuids >>

StoreDelete ==
    /\ steps < MaxOps
    /\ \E id \in TargetIds, confirmed \in BOOLEAN :
         /\ products' = handleDeleteProduct(products, id, confirmed)
         /\ ref' = IF confirmed THEN RefDelete(ref, id) ELSE ref
         /\ lastOp' = Op("delete", id, {}, << >>, confirmed, products,
                         /\ confirmed
                         /\ lastOp.kind = "delete"
                         /\ lastOp.confirmed
                         /\ lastOp.id = id)
    /\ steps' = steps + 1
    /\ UNCHANGED << extVars, activeView, modalVars, tableVars, now, uuids >>

StoreBatchDelete ==
    /\ steps < MaxOps
    /\ \E ids \in (SUBSET TargetIds) \ { {} }, confirmed \in BOOLEAN :
         /\ products' = handleBatchDelete(products, ids, confirmed)
         /\ ref' = handleBatchDelete(ref, ids, confirmed)
         /\ lastOp' = Op("batchDelete", "", ids, << >>, confirmed, products, FALSE)
    /\ steps' = steps + 1
    /\ UNCHANGED << extVars, activeView, modalVars, tableVars, now, uuids >>

StoreBatchLowStock ==
    /\ steps < MaxOps
    /\ \E ids \in (SUBSET TargetIds) \ { {} }, dt \in 0..1 :
         /\ products' = handleBatchLowStock(products, ids)
         /\ ref' = handleBatchLowStock(ref, ids)
         /\ lastOp' = Op("batchLowStock", "", ids, << >>, TRUE, products, FALSE)
         /\ now' = now + dt
    /\ steps' = steps + 1
    /\ UNCHANGED << extVars, activeView, modalVars, tableVars, uuids >>

NextStore ==
    \/ StoreAdd
    \/ StoreUpdate
    \/ StoreDelete
    \/ StoreBatchDelete
    \/ StoreBatchLowStock

SpecStore == Init /\ [][NextStore]_vars


(***************************************************************************)
(* Claims about the catalog operations, checked under SpecStore.           *)
(***************************************************************************)
\* the k-th smallest member of a set of positions
Kth(S, k) == CHOOSE i \in S : Cardinality({ j \in S : j <= i }) = k

\* list `after` is list `before` cut down to the positions in keep, in order
IsRestriction(after, before, keep) ==
    /\ Len(after) = Cardinality(keep)
    /\ \A k \in 1..Len(after) : after[k] = before[Kth(keep, k)]

\* C1: after every sequence of add, update and delete operations from the
\* initial catalog, the catalog equals the reference list the same sequence
\* was replayed on (add appends, update replaces in place, delete removes,
\* the other records keep their order).  On a batch operation the reference
\* list follows the catalog handler, so the comparison is decided by the
\* add, update and delete steps alone.
C1_ReplayEqualsCatalog == products = ref

\* C1 witness: an update has just replaced a record that is not the last one,
\* in a catalog that saw an add and a delete before
C1_Witness ==
    /\ lastOp.kind = "update"
    /\ uuids = 1
    /\ Len(products) = 5
    /\ \E i \in 1..(Len(products) - 1) :
          /\ products[i] = lastOp.rec[1]
          /\ lastOp.prev[i] # products[i]

\* C2: in every reachable state no two records of the catalog have the same id
C2_UniqueIds ==
    \A i, j \in 1..Len(products) : products[i].id = products[j].id => i = j

\* C2 witness: a second product has just been added, after a delete
C2_Witness ==
    /\ lastOp.kind = "add"
    /\ uuids = 2
    /\ Len(products) = 6
    /\ products[5].id # products[6].id

\* C3, as claimed: the records an add, an update or the batch set-quantity
\* action creates or changes carry the time of that operation in lastUpdated
C3_LastUpdatedStamped ==
    /\ lastOp.kind = "add" => products[Len(products)].lastUpdated = now
    /\ lastOp.kind = "update" =>
          \A i \in 1..Len(products) :
              products[i].id = lastOp.id => products[i].lastUpdated = now
    /\ lastOp.kind = "batchLowStock" =>
          \A i \in 1..Len(products) :
              products[i].id \in lastOp.ids => products[i].lastUpdated = now

\* C4: an update or a confirmed delete whose id is not in the catalog leaves
\* the catalog as it was, and so does a delete repeated right after a
\* confirmed delete of the same id
C4_NotFoundIsNoOp ==
    /\ (lastOp.kind = "update" /\ lastOp.id \notin Ids(lastOp.prev))
          => products = lastOp.prev
    /\ (lastOp.kind = "delete" /\ lastOp.confirmed /\ lastOp.id \notin Ids(lastOp.prev))
          => products = lastOp.prev
    /\ (lastOp.kind = "delete" /\ lastOp.repeat) => products = lastOp.prev

\* C4 witness: a record of the initial catalog was deleted and the delete
\* has just been repeated
C4_Witness ==
    /\ lastOp.kind = "delete"
    /\ lastOp.repeat
    /\ lastOp.id \in Ids(INITIAL_PRODUCTS)
    /\ lastOp.id \notin Ids(products)

\* C5: a confirmed batch delete leaves exactly the records whose id is not
\* in ids, in their order and with their fields as they were
C5_BatchDeleteExact ==
    (lastOp.kind = "batchDelete" /\ lastOp.confirmed) =>
        IsRestriction(products, lastOp.prev,
            { i \in 1..Len(lastOp.prev) : lastOp.prev[i].id \notin lastOp.ids })

\* C5 witness: a confirmed batch delete whose ids held an id of the catalog
\* and an id no record had, with a record left standing behind a removed one
C5_Witness ==
    /\ lastOp.kind = "batchDelete"
    /\ lastOp.confirmed
    /\ \E id \in lastOp.ids : id \notin Ids(lastOp.prev)
    /\ \E i \in 1..Len(lastOp.prev) :
          /\ lastOp.prev[i].id \in lastOp.ids
          /\ i < Len(lastOp.prev)
    /\ Len(products) < Len(lastOp.prev)

\* C6: the batch set-quantity action keeps the number and order of the
\* records, keeps every record outside ids as it was, and on a record of
\* ids changes no field but quantity and lastUpdated
C6_BatchLowStockFrame ==
    lastOp.kind = "batchLowStock" =>
        /\ Len(products) = Len(lastOp.prev)
        /\ \A i \in 1..Len(lastOp.prev) :
              IF lastOp.prev[i].id \in lastOp.ids
              THEN /\ products[i].id = lastOp.prev[i].id
                   /\ products[i].name = lastOp.prev[i].name
                   /\ products[i].sku = lastOp.prev[i].sku
                   /\ products[i].category = lastOp.prev[i].category
                   /\ products[i].price = lastOp.prev[i].price
                   /\ products[i].description = lastOp.prev[i].description
                   /\ products[i].history = lastOp.prev[i].history
              ELSE products[i] = lastOp.prev[i]

\* C6 witness: the action has just changed the quantity of a record that
\* has a history, and left another record alone
C6_Witness ==
    /\ lastOp.kind = "batchLowStock"
    /\ \E i \in 1..Len(products) :
          /\ lastOp.prev[i].id \in lastOp.ids
          /\ products[i].quantity # lastOp.prev[i].quantity
          /\ products[i].history # << >>
    /\ \E i \in 1..Len(products) : lastOp.prev[i].id \notin lastOp.ids


(***************************************************************************)
(* InventoryTable: the filter controls of the toolbar.  The toolbar shows  *)
(* them only while nothing is selected, and the table is mounted only in   *)
(* the inventory view.  onChange fires when the value changes.             *)
(***************************************************************************)
SearchInputs == { "", "desk", "DESK", "Fur-0" }

CategoryInputs == { "All", "Furniture", "Electronics", "Other" }

StockInputs == { "All", "In Stock", "Low Stock", "Out of Stock" }

\* a faulty toolbar that shows the filter controls next to the batch actions
FilterControlsAlwaysShown == activeView = "INVENTORY"

FilterControlsShown == activeView = "INVENTORY" /\ selectedIds = {}

SetSearchTermWithin(budget) ==
    /\ FilterControlsShown
    /\ steps < budget
    /\ \E v \in SearchInputs \ { searchTerm } : searchTerm' = v
    /\ steps' = steps + 1
    /\ lastOp' = Op("setSearchTerm", "", {}, << >>, TRUE, products, FALSE)
    /\ UNCHANGED << extVars, products, activeView, modalVars, categoryFilter, stockFilter,
                    selectedIds, isBatchMenuOpen, now, uuids, ref >>

SetCategoryFilterWithin(budget) ==
    /\ FilterControlsShown
    /\ steps < budget
    /\ \E v \in CategoryInputs \ { categoryFilter } : categoryFilter' = v
    /\ steps' = steps + 1
    /\ lastOp' = Op("setCategoryFilter", "", {}, << >>, TRUE, products, FALSE)
    /\ UNCHANGED << extVars, products, activeView, modalVars, searchTerm, stockFilter,
                    selectedIds, isBatchMenuOpen, now, uuids, ref >>

SetStockFilterWithin(budget) ==
    /\ FilterControlsShown
    /\ steps < budget
    /\ \E v \in StockInputs \ { stockFilter } : stockFilter' = v
    /\ steps' = steps + 1
    /\ lastOp' = Op("setStockFilter", "", {}, << >>, TRUE, products, FALSE)
    /\ UNCHANGED << extVars, products, activeView, modalVars, searchTerm, categoryFilter,
                    selectedIds, isBatchMenuOpen, now, uuids, ref >>

(***************************************************************************)
(* SpecView: the derived values over catalogs drawn from a bounded set.    *)
(* A catalog holds records of the initial catalog in their order, each as  *)
(* it was or with its quantity edited to 0, then records that were added.  *)
(***************************************************************************)
ViewAdded ==
    << [ id |-> randomUUID(0), name |-> "desk lamp", sku |-> "dsk-7",
         category |-> "Other", price |-> 1999, quantity |-> 0,
         description |-> "", lastUpdated |-> 1, history |-> << >> ],
       [ id |-> randomUUID(1), name |-> "Untitled", sku |-> "N/A",
         category |-> "Other", price |-> 0, quantity |-> 10,
         description |-> "", lastUpdated |-> 1, history |-> << >> ] >>

ViewSlots == INITIAL_PRODUCTS \o ViewAdded

\* the variants of a record: as it is, or edited to quantity 0 at tick 1
ViewVariants(p) == { p, [ p EXCEPT !.quantity = 0, !.lastUpdated = 1 ] }

\* the catalogs over the slots of S: one variant of each slot, in slot order
ViewCatalogsOver(S) ==
    { [ k \in 1..Cardinality(S) |-> choice[Kth(S, k)] ] :
        choice \in { f \in [ S -> UNION { ViewVariants(ViewSlots[i]) : i \in S } ] :
                       \A i \in S : f[i] \in ViewVariants(ViewSlots[i]) } }

ViewCatalogs ==
    { INITIAL_PRODUCTS } \cup
    UNION { ViewCatalogsOver(S) :
              S \in { T \in SUBSET (1..Len(ViewSlots)) : Cardinality(T) <= MaxCatalog } }

InitView ==
    /\ products \in ViewCatalogs
    /\ activeView = "INVENTORY"
    /\ isModalOpen = FALSE
    /\ editingProduct = << >>
    /\ formData = BlankForm
    /\ isSuggestingPrice = FALSE
    /\ searchTerm = ""
    /\ categoryFilter = "All"
    /\ stockFilter = "All"
    /\ selectedIds = {}
    /\ isBatchMenuOpen = FALSE
    /\ now = 1
    /\ uuids = Len(ViewAdded)
    /\ steps = 0
    /\ lastOp = Op("init", "", {}, << >>, FALSE, products, FALSE)
    /\ ref = products
    /\ isGeneratingDesc = FALSE
    /\ aiAnalysis = NoAnalysis
    /\ isAnalyzing = FALSE
    /\ calls = {}
    /\ requests = 0
    /\ download = << >>

ViewSetSearchTerm == SetSearchTermWithin(MaxViewSteps)

ViewSetCategoryFilter == SetCategoryFilterWithin(MaxViewSteps)

ViewSetStockFilter == SetStockFilterWithin(MaxViewSteps)

NextView ==
    \/ ViewSetSearchTerm
    \/ ViewSetCategoryFilter
    \/ ViewSetStockFilter

SpecView == InitView /\ [][NextView]_vars


(***************************************************************************)
(* Claims about the derived values, checked under SpecView.                *)
(***************************************************************************)
\* the sum of price * quantity over the records at the positions of S
RECURSIVE ValueOver(_, _)
ValueOver(ps, S) ==
    IF S = {} THEN 0
    ELSE LET i == CHOOSE j \in S : TRUE
         IN  (ps[i].price * ps[i].quantity) + ValueOver(ps, S \ { i })

\* C8: the dashboard statistics are the number of records, the sum of
\* price * quantity, the number of records of quantity below 10 (quantity 0
\* included) and the number of records of quantity 0; the initial catalog
\* gives 5 products, 2 low in stock and 0 out of stock
C8_StatsAreCounts ==
    /\ stats(products).totalProducts = Len(products)
    /\ stats(products).totalValue = ValueOver(products, 1..Len(products))
    /\ stats(products).lowStockItems =
          Cardinality({ i \in 1..Len(products) : products[i].quantity < 10 })
    /\ stats(products).outOfStockItems =
          Cardinality({ i \in 1..Len(products) : products[i].quantity = 0 })
    /\ stats(INITIAL_PRODUCTS).totalProducts = 5
    /\ stats(INITIAL_PRODUCTS).lowStockItems = 2
    /\ stats(INITIAL_PRODUCTS).outOfStockItems = 0

\* C8 witness: a catalog with a record of quantity 0, a record of quantity
\* 1..9 and a record of quantity 10 or more, of non-zero total value
C8_Witness ==
    /\ stats(products).outOfStockItems > 0
    /\ stats(products).lowStockItems > stats(products).outOfStockItems
    /\ stats(products).totalProducts > stats(products).lowStockItems
    /\ stats(products).totalValue > 0

\* C9: the category breakdown has exactly one entry for each category that
\* some record has and none for any other, each entry's value is the number
\* of records of its category (so never 0), and the values add up to the
\* number of records
RECURSIVE SumValues(_, _)
SumValues(entries, S) ==
    IF S = {} THEN 0
    ELSE LET j == CHOOSE k \in S : TRUE
         IN  entries[j].value + SumValues(entries, S \ { j })

C9_BreakdownIsCount ==
    LET cd == categoryData(products)
    IN  /\ \A c \in Category :
              (\E i \in 1..Len(products) : products[i].category = c)
                  <=> (\E j \in 1..Len(cd) : cd[j].name = c)
        /\ \A j, k \in 1..Len(cd) : cd[j].name = cd[k].name => j = k
        /\ \A j \in 1..Len(cd) :
              /\ cd[j].name \in Category
              /\ cd[j].value =
                    Cardinality({ i \in 1..Len(products) : products[i].category = cd[j].name })
              /\ cd[j].value > 0
        /\ SumValues(cd, 1..Len(cd)) = stats(products).totalProducts

\* C9 witness: a catalog with two records of one category, a record of
\* another, and a category that no record has
C9_Witness ==
    LET cd == categoryData(products)
    IN  /\ \E j \in 1..Len(cd) : cd[j].value = 2
        /\ \E j \in 1..Len(cd) : cd[j].value = 1
        /\ Len(cd) < Cardinality(Category)

\* two characters that are the same letter, whatever their case: they are
\* equal once each lower-case letter is replaced by its capital
CapitalTable ==
    [ c \in { LowerAlpha[i] : i \in 1..26 } |->
        UpperAlpha[CHOOSE i \in 1..26 : LowerAlpha[i] = c] ]

Capital(c) == IF c \in DOMAIN CapitalTable THEN CapitalTable[c] ELSE c

SameLetter(a, b) == a = b \/ Capital(a) = Capital(b)

\* t occurs in s at some offset, letters compared without regard to case
OccursIgnoringCase(t, s) ==
    \E off \in 0..(Len(s) - Len(t)) :
        \A k \in 1..Len(t) : SameLetter(t[k], s[off + k])

\* the three predicates of the filter specification, as the claim words them
SatisfiesFilter(p) ==
    /\ \/ OccursIgnoringCase(Chars(searchTerm), Chars(p.name))
       \/ OccursIgnoringCase(Chars(searchTerm), Chars(p.sku))
    /\ categoryFilter = "All" \/ categoryFilter = p.category
    /\ \/ stockFilter = "All"
       \/ stockFilter = "In Stock" /\ p.quantity >= 10
       \/ stockFilter = "Low Stock" /\ 0 < p.quantity /\ p.quantity < 10
       \/ stockFilter = "Out of Stock" /\ p.quantity = 0

\* C10: the filtered view is the catalog cut down, in order, to the records
\* that satisfy the three predicates at once; under the default
\* specification it is the whole catalog; 'Low Stock' on the initial
\* catalog gives the records of quantity 4 and 8
C10_FilteredViewExact ==
    LET fv == filteredProducts(products, searchTerm, categoryFilter, stockFilter)
    IN  /\ IsRestriction(fv, products,
              { i \in 1..Len(products) : SatisfiesFilter(products[i]) })
        /\ (searchTerm = "" /\ categoryFilter = "All" /\ stockFilter = "All")
              => fv = products
        /\ filteredProducts(INITIAL_PRODUCTS, "", "All", "Low Stock")
              = << INITIAL_PRODUCTS[2], INITIAL_PRODUCTS[3] >>

\* C10 witness: the search text matches a name in another case, the bucket
\* is 'Low Stock', a record passes, and a record of quantity 0 that matches
\* the search text is left out
C10_Witness ==
    LET fv == filteredProducts(products, searchTerm, categoryFilter, stockFilter)
    IN  /\ searchTerm = "DESK"
        /\ stockFilter = "Low Stock"
        /\ Len(fv) >= 1
        /\ \E i \in 1..Len(products) :
              /\ products[i].quantity = 0
              /\ matchesSearch(products[i], searchTerm)


(***************************************************************************)
(* Spec: the interface.  Every action is one event handler, run to its end *)
(* together with the effects React runs after it (the form reset of        *)
(* useEffect, the unmounting of the table).  The row a click lands on is   *)
(* one of the rows of the filtered view whose id is in TargetIds.  The     *)
(* modal is an overlay without a focus trap (part_001, line 86), so the    *)
(* controls under it stay operable from the keyboard: no handler of the    *)
(* page is disabled while the modal is open.                               *)
(***************************************************************************)
SetSearchTerm == SetSearchTermWithin(MaxSteps)

SetCategoryFilter == SetCategoryFilterWithin(MaxSteps)

SetStockFilter == SetStockFilterWithin(MaxSteps)

Event(kind) == Op(kind, "", {}, << >>, TRUE, products, FALSE)

\* the rows of the table a click can land on
VisibleTargets ==
    IF activeView # "INVENTORY" THEN {}
    ELSE LET fv == filteredProducts(products, searchTerm, categoryFilter, stockFilter)
         IN  { fv[i] : i \in { j \in 1..Len(fv) : fv[j].id \in TargetIds } }

\* setActiveView from the sidebar: InventoryTable is rendered in the
\* inventory view only, so its state starts afresh whenever the view changes
SetActiveView ==
    /\ steps < MaxSteps
    /\ \E v \in ViewState \ { activeView } : activeView' = v
    /\ searchTerm' = ""
    /\ categoryFilter' = "All"
    /\ stockFilter' = "All"
    /\ selectedIds' = {}
    /\ isBatchMenuOpen' = FALSE
    /\ steps' = steps + 1
    /\ lastOp' = Event("setActiveView")
    /\ UNCHANGED << extVars, products, modalVars, now, uuids, ref >>

OpenAddModal ==
    /\ steps < MaxSteps
    /\ activeView = "INVENTORY"
    /\ editingProduct' = << >>
    /\ isModalOpen' = TRUE
    /\ formData' = IF editingProduct # << >> \/ ~isModalOpen
                   THEN ResetForm(<< >>) ELSE formData
    /\ steps' = steps + 1
    /\ lastOp' = Event("openAddModal")
    /\ UNCHANGED << extVars, products, activeView, isSuggestingPrice, tableVars, now, uuids, ref >>

OpenEditModal ==
    /\ steps < MaxSteps
    /\ \E product \in VisibleTargets :
         /\ editingProduct' = << product >>
         /\ formData' = IF editingProduct # << product >> \/ ~isModalOpen
                        THEN ResetForm(<< product >>) ELSE formData
    /\ isModalOpen' = TRUE
    /\ steps' = steps + 1
    /\ lastOp' = Event("openEditModal")
    /\ UNCHANGED << extVars, products, activeView, isSuggestingPrice, tableVars, now, uuids, ref >>

\* onClose: the modal closes, editingProduct stays, the form is reset
CloseModal ==
    /\ steps < MaxSteps
    /\ isModalOpen
    /\ isModalOpen' = FALSE
    /\ formData' = ResetForm(editingProduct)
    /\ steps' = steps + 1
    /\ lastOp' = Event("closeModal")
    /\ UNCHANGED << extVars, products, activeView, editingProduct, isSuggestingPrice,
                    tableVars, now, uuids, ref >>

EvQtyNeg   == [ field |-> "quantity", text |-> "", num |-> << -3 >> ]
EvPriceNeg == [ field |-> "price", text |-> "", num |-> << -100 >> ]
EvPrice    == [ field |-> "price", text |-> "", num |-> << 1999 >> ]

FormEvents == { EvName, EvSku, EvQty0, EvQty12, EvQtyNeg, EvPriceNeg, EvPrice }

HandleChange ==
    /\ steps < MaxSteps
    /\ isModalOpen
    /\ \E e \in FormEvents :
         /\ handleChange(formData, e) # formData
         /\ formData' = handleChange(formData, e)
    /\ steps' = steps + 1
    /\ lastOp' = Event("handleChange")
    /\ UNCHANGED << extVars, products, activeView, isModalOpen, editingProduct,
                    isSuggestingPrice, tableVars, now, uuids, ref >>

(***************************************************************************)
(* geminiService (src/unnamed/part_000) and the handlers that call it.     *)
(* A response is what ai.models.generateContent settles with: ok is FALSE  *)
(* when the request fails (the promise rejects), and text is response.text.*)
(* Each service function is the value its promise resolves to.  A call is  *)
(* outstanding from the handler's await until the response arrives; a call *)
(* record holds the request (input) and, as history, the catalog (at) and  *)
(* the product of the form (editing) of the moment the handler was invoked.*)
(***************************************************************************)
DescriptionResponses ==
    { [ ok |-> TRUE, text |-> "Bright LED desk lamp." ],
      [ ok |-> TRUE, text |-> "" ],
      [ ok |-> FALSE, text |-> "" ] }

AnalysisResponses ==
    { [ ok |-> TRUE, text |-> "## Inventory summary" ],
      [ ok |-> TRUE, text |-> "" ],
      [ ok |-> FALSE, text |-> "" ] }

\* the objects the service may send as JSON, prices in cents
PriceSuggestions ==
    { [ min |-> 1000, max |-> 2001, reasoning |-> "market range" ],
      [ min |-> -500, max |-> 100, reasoning |-> "clearance" ] }

\* json is << >> when response.text is empty
PriceResponses ==
    { [ ok |-> TRUE, json |-> << s >> ] : s \in PriceSuggestions }
      \cup { [ ok |-> TRUE, json |-> << >> ], [ ok |-> FALSE, json |-> << >> ] }

generateProductDescription(response) ==
    IF ~response.ok THEN "Failed to generate description via AI."
    ELSE IF response.text = "" THEN "No description generated."
    ELSE response.text

\* a faulty summary that leaves the price of the products out
InventorySummaryWithoutPrice(ps) ==
    [ i \in 1..Len(ps) |->
        [ name |-> ps[i].name, qty |-> ps[i].quantity, cat |-> ps[i].category,
          price |-> 0 ] ]

\* inventorySummary of analyzeInventoryRisks: built before the request is sent
inventorySummary(ps) ==
    [ i \in 1..Len(ps) |->
        [ name |-> ps[i].name, qty |-> ps[i].quantity, cat |-> ps[i].category,
          price |-> ps[i].price ] ]

\* a faulty service function that swallows the failure and returns no text
AnalyzeRisksSilentOnError(input, response) ==
    IF ~response.ok THEN [ text |-> "", about |-> << >> ]
    ELSE IF response.text = ""
    THEN [ text |-> "No analysis available.", about |-> << >> ]
    ELSE [ text |-> response.text, about |-> input ]

\* analyzeInventoryRisks: the text, and the summary the text was written
\* about (the service answers the request it was sent)
analyzeInventoryRisks(input, response) ==
    IF ~response.ok
    THEN [ text |-> "Unable to analyze inventory at this time.", about |-> << >> ]
    ELSE IF response.text = ""
    THEN [ text |-> "No analysis available.", about |-> << >> ]
    ELSE [ text |-> response.text, about |-> input ]

\* suggestPricing: JSON.parse(text), or the fallback when the request fails
\* or the text is empty
suggestPricing(response) ==
    IF response.ok /\ response.json # << >> THEN response.json[1]
    ELSE [ min |-> 0, max |-> 0, reasoning |-> "AI unavailable" ]

\* a faulty handler that clears its flag only when the request succeeded
BusyUnlessSucceeded(response) == ~response.ok

\* the in-progress flag after the await: set...(false), whatever the
\* service function resolved to
busyAfterCall(response) == FALSE

Call(op, input) ==
    [ op |-> op, n |-> requests + 1, input |-> input, at |-> products,
      editing |-> editingProduct ]

CallsOf(op) == { c \in calls : c.op = op }

\* lastOp of a completion: the response, the call, the value the service
\* function resolved to, the number of requests sent before the completion
\* and the form the completion found
Done(kind, response, call, result) ==
    Op(kind, "", {}, << response, call, result, requests, formData >>, TRUE, products, FALSE)

\* a run-analysis button that is never disabled
RunAnalysisNeverDisabled == FALSE

\* the Run Analysis button: disabled={isAnalyzing}
runAnalysisDisabled == isAnalyzing

\* handleRunAnalysis up to its await
StartAnalysis ==
    /\ steps < MaxSteps
    /\ activeView = "AI_INSIGHTS"
    /\ ~runAnalysisDisabled
    /\ isAnalyzing' = TRUE
    /\ calls' = calls \cup { Call("analysis", inventorySummary(products)) }
    /\ requests' = requests + 1
    /\ steps' = steps + 1
    /\ lastOp' = Event("runAnalysis")
    /\ UNCHANGED << products, activeView, modalVars, tableVars, now, uuids, ref,
                    isGeneratingDesc, aiAnalysis, download >>

\* handleRunAnalysis after its await
FinishAnalysis ==
    /\ steps < MaxSteps
    /\ \E call \in CallsOf("analysis"), response \in AnalysisResponses :
         LET result == analyzeInventoryRisks(call.input, response)
         IN  /\ aiAnalysis' = result
             /\ isAnalyzing' = busyAfterCall(response)
             /\ calls' = calls \ { call }
             /\ lastOp' = Done("analysisDone", response, call, result)
    /\ steps' = steps + 1
    /\ UNCHANGED << products, activeView, modalVars, tableVars, now, uuids, ref,
                    isGeneratingDesc, requests, download >>

\* handleGenerateDescription up to its await: the button is disabled while
\* a call is outstanding or the name is empty
StartGenerateDescription ==
    /\ steps < MaxSteps
    /\ isModalOpen
    /\ ~isGeneratingDesc
    /\ formData.name # ""
    /\ isGeneratingDesc' = TRUE
    /\ calls' = calls \cup { Call("description", << formData.name, formData.category >>) }
    /\ requests' = requests + 1
    /\ steps' = steps + 1
    /\ lastOp' = Event("generateDescription")
    /\ UNCHANGED << products, activeView, modalVars, tableVars, now, uuids, ref,
                    aiAnalysis, isAnalyzing, download >>

\* handleGenerateDescription after its await: the text goes into the form
\* the modal holds at that moment
FinishGenerateDescription ==
    /\ steps < MaxSteps
    /\ \E call \in CallsOf("description"), response \in DescriptionResponses :
         LET result == generateProductDescription(response)
         IN  /\ formData' = [ formData EXCEPT !.description = result ]
             /\ isGeneratingDesc' = busyAfterCall(response)
             /\ calls' = calls \ { call }
             /\ lastOp' = Done("descriptionDone", response, call, result)
    /\ steps' = steps + 1
    /\ UNCHANGED << products, activeView, isModalOpen, editingProduct,
                    isSuggestingPrice, tableVars, now, uuids, ref,
                    aiAnalysis, isAnalyzing, requests, download >>

\* handleSuggestPrice up to its await: the button is disabled while a call
\* is outstanding or the name is empty
StartSuggestPrice ==
    /\ steps < MaxSteps
    /\ isModalOpen
    /\ ~isSuggestingPrice
    /\ formData.name # ""
    /\ isSuggestingPrice' = TRUE
    /\ calls' = calls \cup { Call("price", << formData.name, formData.category >>) }
    /\ requests' = requests + 1
    /\ steps' = steps + 1
    /\ lastOp' = Event("suggestPrice")
    /\ UNCHANGED << products, activeView, isModalOpen, editingProduct, formData,
                    tableVars, now, uuids, ref,
                    isGeneratingDesc, aiAnalysis, isAnalyzing, download >>

\* handleSuggestPrice after its await: the price goes into the form the
\* modal holds at that moment
FinishSuggestPrice ==
    /\ steps < MaxSteps
    /\ \E call \in CallsOf("price"), response \in PriceResponses :
         LET result == suggestPricing(response)
         IN  /\ \E price \in SuggestedPrices(result) :
                   formData' = [ formData EXCEPT !.price = price ]
             /\ isSuggestingPrice' = busyAfterCall(response)
             /\ calls' = calls \ { call }
             /\ lastOp' = Done("suggestPriceDone", response, call, result)
    /\ steps' = steps + 1
    /\ UNCHANGED << products, activeView, isModalOpen, editingProduct,
                    tableVars, now, uuids, ref,
                    isGeneratingDesc, aiAnalysis, isAnalyzing, requests, download >>

\* the form's submit: the browser fires onSubmit only for a valid form
Submit ==
    /\ steps < MaxSteps
    /\ isModalOpen
    /\ FormValid(formData)
    /\ \E dt \in 0..1 :
         LET product == handleSubmit(editingProduct, formData, randomUUID(uuids), now + dt)
         IN  /\ products' = handleSaveProduct(products, editingProduct, product)
             /\ ref' = IF editingProduct # << >>
                       THEN RefUpdate(ref, product) ELSE RefAdd(ref, product)
             /\ lastOp' = Op(IF editingProduct # << >> THEN "update" ELSE "add",
                             product.id, {}, << product >>, TRUE, products, FALSE)
             /\ now' = now + dt
    /\ uuids' = IF editingProduct # << >> THEN uuids ELSE uuids + 1
    /\ isModalOpen' = FALSE
    /\ editingProduct' = << >>
    /\ formData' = BlankForm
    /\ steps' = steps + 1
    /\ UNCHANGED << extVars, activeView, isSuggestingPrice, tableVars >>

DeleteClick ==
    /\ steps < MaxSteps
    /\ \E product \in VisibleTargets, confirmed \in BOOLEAN :
         /\ products' = handleDeleteProduct(products, product.id, confirmed)
         /\ ref' = IF confirmed THEN RefDelete(ref, product.id) ELSE ref
         /\ lastOp' = Op("delete", product.id, {}, << >>, confirmed, products, FALSE)
    /\ steps' = steps + 1
    /\ UNCHANGED << extVars, activeView, modalVars, tableVars, now, uuids >>


\* a faulty toggle that can only add
ToggleOnlyAdds(selected, id) == selected \cup { id }

\* toggleSelection of a row's checkbox
toggleSelection(selected, id) ==
    IF id \in selected THEN selected \ { id } ELSE selected \cup { id }

\* lastOp.repeat: the event before was a toggle of the same id, and then
\* lastOp.ids is the selection that toggle found
ToggleSelectionWithin(budget) ==
    /\ steps < budget
    /\ \E product \in VisibleTargets :
         LET again == lastOp.kind = "toggleSelection" /\ lastOp.id = product.id
         IN  /\ selectedIds' = toggleSelection(selectedIds, product.id)
             /\ lastOp' = Op("toggleSelection", product.id,
                             IF again THEN lastOp.sel ELSE {},
                             << >>, TRUE, products, again)
    /\ steps' = steps + 1
    /\ UNCHANGED << extVars, products, activeView, modalVars, searchTerm, categoryFilter,
                    stockFilter, isBatchMenuOpen, now, uuids, ref >>

\* a faulty select-all that replaces the selection by the visible ids
SelectAllReplaces(selected, fv) ==
    IF Len(fv) > 0 /\ \A i \in 1..Len(fv) : fv[i].id \in selected
    THEN selected \ Ids(fv)
    ELSE Ids(fv)

\* handleSelectAll of the header checkbox, fv being the filtered view
handleSelectAll(selected, fv) ==
    IF Len(fv) > 0 /\ \A i \in 1..Len(fv) : fv[i].id \in selected
    THEN selected \ Ids(fv)
    ELSE selected \cup Ids(fv)

\* allFilteredSelected of the render, fv being the filtered view
allFilteredSelected(fv, selected) ==
    Len(fv) > 0 /\ \A i \in 1..Len(fv) : fv[i].id \in selected

\* isIndeterminate of the render
isIndeterminate(fv, selected) ==
    selected # {} /\ ~allFilteredSelected(fv, selected)

\* the checked attribute of the header checkbox
selectAllChecked(fv, selected) ==
    allFilteredSelected(fv, selected) /\ Len(fv) > 0

SelectAllWithin(budget) ==
    /\ steps < budget
    /\ activeView = "INVENTORY"
    /\ selectedIds' = handleSelectAll(selectedIds,
          filteredProducts(products, searchTerm, categoryFilter, stockFilter))
    /\ steps' = steps + 1
    /\ lastOp' = Event("selectAll")
    /\ UNCHANGED << extVars, products, activeView, modalVars, searchTerm, categoryFilter,
                    stockFilter, isBatchMenuOpen, now, uuids, ref >>

\* the toolbar shows the batch controls while something is selected
BatchControlsShown == activeView = "INVENTORY" /\ selectedIds # {}

ClearSelectionWithin(budget) ==
    /\ steps < budget
    /\ BatchControlsShown
    /\ selectedIds' = {}
    /\ isBatchMenuOpen' = FALSE
    /\ steps' = steps + 1
    /\ lastOp' = Event("clearSelection")
    /\ UNCHANGED << extVars, products, activeView, modalVars, searchTerm, categoryFilter,
                    stockFilter, now, uuids, ref >>

ToggleBatchMenuWithin(budget) ==
    /\ steps < budget
    /\ BatchControlsShown
    /\ isBatchMenuOpen' = ~isBatchMenuOpen
    /\ steps' = steps + 1
    /\ lastOp' = Event("toggleBatchMenu")
    /\ UNCHANGED << extVars, products, activeView, modalVars, searchTerm, categoryFilter,
                    stockFilter, selectedIds, now, uuids, ref >>

\* a faulty handler that hands over the selected ids of the filtered view only
BatchDeleteOfVisibleWithin(budget) ==
    /\ steps < budget
    /\ BatchControlsShown
    /\ isBatchMenuOpen
    /\ \E confirmed \in BOOLEAN :
         LET ids == selectedIds \cap
                      Ids(filteredProducts(products, searchTerm, categoryFilter, stockFilter))
         IN  /\ products' = handleBatchDelete(products, ids, confirmed)
             /\ ref' = handleBatchDelete(ref, ids, confirmed)
             /\ lastOp' = Op("batchDelete", "", ids, << >>, confirmed, products, FALSE)
    /\ selectedIds' = {}
    /\ isBatchMenuOpen' = FALSE
    /\ steps' = steps + 1
    /\ UNCHANGED << extVars, activeView, modalVars, searchTerm, categoryFilter, stockFilter,
                    now, uuids >>

\* handleBatchDeleteClick: onBatchDelete(Array.from(selectedIds)), then clearSelection()
BatchDeleteClickWithin(budget) ==
    /\ steps < budget
    /\ BatchControlsShown
    /\ isBatchMenuOpen
    /\ \E confirmed \in BOOLEAN :
         /\ products' = handleBatchDelete(products, selectedIds, confirmed)
         /\ ref' = handleBatchDelete(ref, selectedIds, confirmed)
         /\ lastOp' = Op("batchDelete", "", selectedIds, << >>, confirmed, products, FALSE)
    /\ selectedIds' = {}
    /\ isBatchMenuOpen' = FALSE
    /\ steps' = steps + 1
    /\ UNCHANGED << extVars, activeView, modalVars, searchTerm, categoryFilter, stockFilter,
                    now, uuids >>

\* handleBatchLowStockClick: onBatchLowStock(Array.from(selectedIds)), then clearSelection()
BatchLowStockClickWithin(budget) ==
    /\ steps < budget
    /\ BatchControlsShown
    /\ isBatchMenuOpen
    /\ \E dt \in 0..1 : now' = now + dt
    /\ products' = handleBatchLowStock(products, selectedIds)
    /\ ref' = handleBatchLowStock(ref, selectedIds)
    /\ lastOp' = Op("batchLowStock", "", selectedIds, << >>, TRUE, products, FALSE)
    /\ selectedIds' = {}
    /\ isBatchMenuOpen' = FALSE
    /\ steps' = steps + 1
    /\ UNCHANGED << extVars, activeView, modalVars, searchTerm, categoryFilter, stockFilter,
                    uuids >>

ToggleBatchMenu == ToggleBatchMenuWithin(MaxSteps)

BatchDeleteClick == BatchDeleteClickWithin(MaxSteps)

BatchLowStockClick == BatchLowStockClickWithin(MaxSteps)

\* a faulty export that reverses the props array in place before it filters
ExportReversingWithin(budget) ==
    /\ steps < budget
    /\ FilterControlsShown
    /\ products' = [ i \in 1..Len(products) |-> products[Len(products) + 1 - i] ]
    /\ LET files == handleExportCSV(
                       filteredProducts(products', searchTerm, categoryFilter, stockFilter))
       IN  /\ download' = IF files = << >> THEN download ELSE files
           /\ lastOp' = Op("export", "", {}, files, TRUE, products, FALSE)
    /\ steps' = steps + 1
    /\ UNCHANGED << activeView, modalVars, tableVars, now, uuids, ref,
                    isGeneratingDesc, aiAnalysis, isAnalyzing, calls, requests >>

\* the Export button of the toolbar: handleExportCSV on the filtered view.
\* lastOp.rec holds the files this click handed to the browser.
ExportWithin(budget) ==
    /\ steps < budget
    /\ FilterControlsShown
    /\ LET files == handleExportCSV(
                       filteredProducts(products, searchTerm, categoryFilter, stockFilter))
       IN  /\ download' = IF files = << >> THEN download ELSE files
           /\ lastOp' = Op("export", "", {}, files, TRUE, products, FALSE)
    /\ steps' = steps + 1
    /\ UNCHANGED << products, activeView, modalVars, tableVars, now, uuids, ref,
                    isGeneratingDesc, aiAnalysis, isAnalyzing, calls, requests >>

Export == ExportWithin(MaxSteps)

ToggleSelection == ToggleSelectionWithin(MaxSteps)

SelectAll == SelectAllWithin(MaxSteps)

ClearSelection == ClearSelectionWithin(MaxSteps)

Next ==
    \/ SetActiveView
    \/ SetSearchTerm
    \/ SetCategoryFilter
    \/ SetStockFilter
    \/ OpenAddModal
    \/ OpenEditModal
    \/ CloseModal
    \/ HandleChange
    \/ StartSuggestPrice
    \/ FinishSuggestPrice
    \/ StartGenerateDescription
    \/ FinishGenerateDescription
    \/ StartAnalysis
    \/ FinishAnalysis
    \/ Submit
    \/ DeleteClick
    \/ ToggleSelection
    \/ SelectAll
    \/ ClearSelection
    \/ Export
    \/ ToggleBatchMenu
    \/ BatchDeleteClick
    \/ BatchLowStockClick

Spec == Init /\ [][Next]_vars

\* C7: in every reachable state every product of the catalog has a price
\* and a quantity that are not negative
C7_NonNegative ==
    \A i \in 1..Len(products) : products[i].price >= 0 /\ products[i].quantity >= 0

\* C7 witness: the price suggestion has just put a negative price into the
\* form of a product that is being edited
C7_Witness ==
    /\ lastOp.kind = "suggestPriceDone"
    /\ isModalOpen
    /\ editingProduct # << >>
    /\ formData.price < 0


(***************************************************************************)
(* SpecTable: the selection and the export over states of the table drawn  *)
(* from a bounded set.  A drawn catalog is one the form and the handlers   *)
(* produce; a drawn selection holds ids of rows that are visible, of       *)
(* records edited after they were selected, or of a record deleted by its  *)
(* row button after it was selected.                                       *)
(***************************************************************************)
\* a product saved by the form with a quote in its name and description
\* and a comma in its sku
TableWidget ==
    [ id |-> randomUUID(0), name |-> "6\" Widget", sku |-> "W,6",
      category |-> "Other", price |-> 1250, quantity |-> 3,
      description |-> "7\" tall, \"mini\"", lastUpdated |-> 1, history |-> << >> ]

\* a product saved by the form with quantity 12
TableLamp ==
    [ id |-> randomUUID(0), name |-> "desk lamp", sku |-> "dsk-7",
      category |-> "Other", price |-> 0, quantity |-> 12,
      description |-> "", lastUpdated |-> 1, history |-> << >> ]

TableCatalogs ==
    { INITIAL_PRODUCTS,
      << INITIAL_PRODUCTS[1], INITIAL_PRODUCTS[2], INITIAL_PRODUCTS[3],
         INITIAL_PRODUCTS[4],
         [ INITIAL_PRODUCTS[5] EXCEPT !.quantity = 0, !.lastUpdated = 1 ],
         TableLamp >>,
      << INITIAL_PRODUCTS[2], TableWidget >>,
      << >> }

InitTable ==
    /\ products \in TableCatalogs
    /\ activeView = "INVENTORY"
    /\ isModalOpen = FALSE
    /\ editingProduct = << >>
    /\ formData = BlankForm
    /\ isSuggestingPrice = FALSE
    /\ searchTerm \in { "", "desk" }
    /\ categoryFilter \in { "All", "Electronics" }
    /\ stockFilter \in StockInputs
    /\ selectedIds \in
          { S \in SUBSET (Ids(products) \cup { "3" }) :
              \A id \in S :
                 \/ id \in Ids(filteredProducts(products, searchTerm,
                                                categoryFilter, stockFilter))
                 \/ \E i \in 1..Len(products) :
                       products[i].id = id /\ products[i].lastUpdated > 0
                 \/ id \notin Ids(products) }
    /\ isBatchMenuOpen = FALSE
    /\ now = 1
    /\ uuids = 1
    /\ steps = 0
    /\ lastOp = Op("init", "", {}, << >>, FALSE, products, FALSE)
    /\ ref = products
    /\ isGeneratingDesc = FALSE
    /\ aiAnalysis = NoAnalysis
    /\ isAnalyzing = FALSE
    /\ calls = {}
    /\ requests = 0
    /\ download = << >>

TableToggleSelection == ToggleSelectionWithin(MaxTableSteps)

TableSelectAll == SelectAllWithin(MaxTableSteps)

TableClearSelection == ClearSelectionWithin(MaxTableSteps)

TableExport == ExportWithin(MaxTableSteps)

TableToggleBatchMenu == ToggleBatchMenuWithin(MaxTableSteps)

TableBatchDeleteClick == BatchDeleteClickWithin(MaxTableSteps)

TableBatchLowStockClick == BatchLowStockClickWithin(MaxTableSteps)

NextTable ==
    \/ TableToggleSelection
    \/ TableSelectAll
    \/ TableClearSelection
    \/ TableExport
    \/ TableToggleBatchMenu
    \/ TableBatchDeleteClick
    \/ TableBatchLowStockClick

SpecTable == InitTable /\ [][NextTable]_vars


(***************************************************************************)
(* Claims about the selection and the export, checked under SpecTable.     *)
(***************************************************************************)
\* the ids of the filtered view of the current state
VisibleIds == Ids(filteredProducts(products, searchTerm, categoryFilter, stockFilter))

\* C11: select-all with filtered view V and selection S gives S minus ids(V)
\* when every id of V is in S and S union ids(V) otherwise, and the ids
\* outside V are selected afterwards exactly if they were before
C11_SelectAllVisible ==
    lastOp.kind = "selectAll" =>
        LET S == lastOp.sel
            V == VisibleIds
        IN  /\ selectedIds = IF V \subseteq S THEN S \ V ELSE S \cup V
            /\ \A id \in (S \cup selectedIds) \ V : id \in selectedIds <=> id \in S

\* C11 witness: select-all on a view of 3 ids, 2 of them selected, with one
\* selected id outside the view, has left 4 ids selected
C11_Witness ==
    /\ lastOp.kind = "selectAll"
    /\ Cardinality(VisibleIds) = 3
    /\ Cardinality(lastOp.sel \cap VisibleIds) = 2
    /\ Cardinality(lastOp.sel \ VisibleIds) = 1
    /\ Cardinality(selectedIds) = 4

\* C12: a toggle changes the membership of its id and of no other id, and a
\* toggle of the same id right after it brings the selection back
C12_ToggleRoundTrip ==
    /\ lastOp.kind = "toggleSelection" =>
          /\ lastOp.id \in selectedIds <=> lastOp.id \notin lastOp.sel
          /\ selectedIds \ { lastOp.id } = lastOp.sel \ { lastOp.id }
          /\ lastOp.repeat => selectedIds = lastOp.ids
    /\ \A id \in TargetIds :
          toggleSelection(toggleSelection(selectedIds, id), id) = selectedIds

\* C12 witness: a selected id was toggled off and on again, beside another
\* selected id
C12_Witness ==
    /\ lastOp.kind = "toggleSelection"
    /\ lastOp.repeat
    /\ lastOp.id \in selectedIds
    /\ Cardinality(selectedIds) >= 2

\* the header row of the export artifact
ExportHeaderLine ==
    << "I", "D", ",", "N", "a", "m", "e", ",", "S", "K", "U", ",", "C",
       "a", "t", "e", "g", "o", "r", "y", ",", "P", "r", "i", "c", "e",
       ",", "Q", "u", "a", "n", "t", "i", "t", "y", ",", "D", "e", "s",
       "c", "r", "i", "p", "t", "i", "o", "n", ",", "L", "a", "s", "t",
       " ", "U", "p", "d", "a", "t", "e", "d" >>

\* the lines of a text: the runs between its line feeds
LineFeeds(text) == { i \in 1..Len(text) : text[i] = "\n" }

LineOf(text, k) ==
    LET nl    == LineFeeds(text)
        first == IF k = 1 THEN 1 ELSE Kth(nl, k - 1) + 1
        last  == IF k = Cardinality(nl) + 1 THEN Len(text) ELSE Kth(nl, k) - 1
    IN  SubSeq(text, first, last)

\* a text wrapped in double quotes with every double quote in it doubled:
\* character i of the text stands behind the opening quote and behind the
\* extra quotes of the quotes before it
QuotesBefore(cs, i) == Cardinality({ k \in 1..(i - 1) : cs[k] = "\"" })

Wrapped(cs) ==
    LET n == Len(cs) + QuotesBefore(cs, Len(cs) + 1) + 2
    IN  [ j \in 1..n |->
            IF j = 1 \/ j = n THEN "\""
            ELSE cs[CHOOSE i \in 1..Len(cs) :
                       \/ j = i + QuotesBefore(cs, i) + 1
                       \/ cs[i] = "\"" /\ j = i + QuotesBefore(cs, i) + 2] ]

\* a line that holds the eight fields of p in the column order, each text
\* field as it is or wrapped
HoldsFieldsInOrder(line, p) ==
    \E n \in { Chars(p.name), Wrapped(Chars(p.name)) },
       k \in { Chars(p.sku), Wrapped(Chars(p.sku)) },
       d \in { Chars(p.description), Wrapped(Chars(p.description)) } :
        line = Chars(p.id) \o << "," >> \o n \o << "," >> \o k \o << "," >>
                 \o Chars(p.category) \o << "," >> \o PriceToString(p.price)
                 \o << "," >> \o QuantityToString(p.quantity) \o << "," >> \o d
                 \o << "," >> \o toISOString(p.lastUpdated)

\* a text that is the header row followed by one row per product of fv, in order
IsExportOf(text, fv) ==
    /\ Cardinality(LineFeeds(text)) = Len(fv)
    /\ LineOf(text, 1) = ExportHeaderLine
    /\ \A k \in 1..Len(fv) : HoldsFieldsInOrder(LineOf(text, k + 1), fv[k])

\* C13, as claimed: every export, of an empty filtered view too, produces
\* the header row followed by exactly one row per visible product, in the
\* order of the filtered view, with the fields in the column order
C13_ExportEveryView ==
    lastOp.kind = "export" =>
        /\ lastOp.rec # << >>
        /\ IsExportOf(lastOp.rec[1],
              filteredProducts(products, searchTerm, categoryFilter, stockFilter))

\* C13, amended: an export of a filtered view that is not empty produces the
\* header row followed by exactly one row per visible product, in the order
\* of the filtered view, with the fields in the column order; an export of
\* an empty filtered view produces nothing
C13_ExportOfNonEmptyView ==
    lastOp.kind = "export" =>
        LET fv == filteredProducts(products, searchTerm, categoryFilter, stockFilter)
        IN  IF fv = << >>
            THEN lastOp.rec = << >>
            ELSE /\ Len(lastOp.rec) = 1
                 /\ IsExportOf(lastOp.rec[1], fv)
                 /\ download = lastOp.rec

\* C13 witness: an export of a filtered view of two or more rows that
\* leaves a record of the catalog out
C13_Witness ==
    LET fv == filteredProducts(products, searchTerm, categoryFilter, stockFilter)
    IN  /\ lastOp.kind = "export"
        /\ Len(fv) >= 2
        /\ Len(fv) < Len(products)
        /\ download # << >>

\* the columns of a row as a reader of comma-separated text counts them: a
\* comma separates two columns unless it stands inside double quotes
ColumnCount(line) ==
    1 + Cardinality({ i \in 1..Len(line) :
                        line[i] = "," /\ QuotesBefore(line, i) % 2 = 0 })

\* C14, as claimed: in every exported row name, sku and description are
\* wrapped in double quotes with the quotes in them doubled, and a quote or
\* a comma in a text leaves the row with its eight columns
C14_TextFieldsQuoted ==
    (lastOp.kind = "export" /\ lastOp.rec # << >>) =>
        LET fv == filteredProducts(products, searchTerm, categoryFilter, stockFilter)
        IN  \A k \in 1..Len(fv) :
               LET line == LineOf(lastOp.rec[1], k + 1)
                   p    == fv[k]
               IN  /\ ColumnCount(line) = Len(csvHeaders)
                   /\ line = Chars(p.id) \o << "," >> \o Wrapped(Chars(p.name))
                                \o << "," >> \o Wrapped(Chars(p.sku)) \o << "," >>
                                \o Chars(p.category) \o << "," >>
                                \o PriceToString(p.price) \o << "," >>
                                \o QuantityToString(p.quantity) \o << "," >>
                                \o Wrapped(Chars(p.description)) \o << "," >>
                                \o toISOString(p.lastUpdated)


(***************************************************************************)
(* Frame of the table's operations, and the AI advisory operations, under  *)
(* Spec.                                                                   *)
(***************************************************************************)
CatalogOps == { "add", "update", "delete", "batchDelete", "batchLowStock" }

TableOps ==
    { "setSearchTerm", "setCategoryFilter", "setStockFilter", "toggleSelection",
      "selectAll", "clearSelection", "export" }

\* C15: a change of the search text, of the category filter or of the stock
\* filter, a toggle of a selection, select-all, clearing the selection and
\* an export leave the catalog as it was, records, fields and order; the
\* catalog differs from what an event found only after add, update, delete,
\* batch delete or batch set-quantity
C15_TableOpsKeepCatalog ==
    /\ lastOp.kind \in TableOps => products = lastOp.prev
    /\ products # lastOp.prev => lastOp.kind \in CatalogOps

\* C15 witness: a file has just been exported from a catalog that an earlier
\* operation changed and that holds several products
C15_Witness ==
    /\ lastOp.kind = "export"
    /\ download # << >>
    /\ products # INITIAL_PRODUCTS
    /\ Len(products) > 1

DoneKinds == { "analysisDone", "descriptionDone", "suggestPriceDone" }

PriceFallback == [ min |-> 0, max |-> 0, reasoning |-> "AI unavailable" ]

\* C16: when the external call of generate description, analyze risks or
\* suggest price fails, the operation completes with its fixed fallback
\* value, which is what its display slot then holds, and the completion
\* sends no further request and leaves no call of the operation outstanding
C16_FallbackOnFailure ==
    lastOp.kind \in DoneKinds =>
        LET response == lastOp.rec[1]
            call == lastOp.rec[2]
            result == lastOp.rec[3]
            sent == lastOp.rec[4]
        IN  /\ requests = sent
            /\ CallsOf(call.op) = {}
            /\ ~response.ok =>
                 /\ lastOp.kind = "descriptionDone" =>
                      /\ result = "Failed to generate description via AI."
                      /\ formData.description = result
                 /\ lastOp.kind = "analysisDone" =>
                      /\ result.text = "Unable to analyze inventory at this time."
                      /\ aiAnalysis = result
                 /\ lastOp.kind = "suggestPriceDone" =>
                      /\ result = PriceFallback
                      /\ formData.price = 0

\* C16 witness: the analysis request has just failed and the panel shows
\* the fallback message
C16_Witness ==
    /\ lastOp.kind = "analysisDone"
    /\ ~lastOp.rec[1].ok
    /\ aiAnalysis.text = "Unable to analyze inventory at this time."
    /\ ~isAnalyzing

\* name, quantity, category and price of every record of a catalog, in order
CatalogSummary(ps) ==
    [ i \in 1..Len(ps) |->
        [ name |-> ps[i].name, qty |-> ps[i].quantity, cat |-> ps[i].category,
          price |-> ps[i].price ] ]

\* C17: the input of an outstanding risk analysis is the catalog of the
\* moment of its invocation whatever has happened to the catalog since, the
\* report that arrives is about that catalog, and the completion leaves the
\* catalog as it found it
C17_AnalysisOfInvocationCatalog ==
    /\ \A call \in CallsOf("analysis") : call.input = CatalogSummary(call.at)
    /\ lastOp.kind = "analysisDone" =>
         /\ products = lastOp.prev
         /\ lastOp.rec[1].ok /\ lastOp.rec[1].text # "" =>
              aiAnalysis.about = CatalogSummary(lastOp.rec[2].at)

\* C17 witness: a report has just arrived for a call during which the
\* catalog was changed
C17_Witness ==
    /\ lastOp.kind = "analysisDone"
    /\ lastOp.rec[1].ok
    /\ lastOp.rec[1].text # ""
    /\ lastOp.rec[2].at # products
    /\ CatalogSummary(lastOp.rec[2].at) # CatalogSummary(products)

AiOps == { "analysis", "description", "price" }

\* the control that invokes an operation is on the screen and has what it
\* needs (a name in the form)
ControlShown(op) ==
    IF op = "analysis" THEN activeView = "AI_INSIGHTS"
    ELSE isModalOpen /\ formData.name # ""

ControlEnabled(op) ==
    /\ ControlShown(op)
    /\ CASE op = "analysis" -> ~runAnalysisDisabled
         [] op = "description" -> ~isGeneratingDesc
         [] op = "price" -> ~isSuggestingPrice

\* C18 as stated: while an invocation of an operation is outstanding and the
\* operation's control is on the screen, a second invocation can be issued
C18_SecondInvocationCanBeIssued ==
    \A call \in calls : ControlShown(call.op) => ControlEnabled(call.op)

\* C18: at most one invocation of an AI advisory operation is outstanding
\* at a time, its control being disabled until it completes; each
\* invocation produces its own result, and the display slot holds the
\* result of the invocation that completed last
C18_OneOutstandingInvocation ==
    /\ \A op \in AiOps :
         /\ Cardinality(CallsOf(op)) <= 1
         /\ CallsOf(op) # {} => ~ControlEnabled(op)
    /\ lastOp.kind = "analysisDone" => aiAnalysis = lastOp.rec[3]
    /\ lastOp.kind = "descriptionDone" => formData.description = lastOp.rec[3]
    /\ lastOp.kind = "suggestPriceDone" => formData.price \in SuggestedPrices(lastOp.rec[3])

\* C18 witness: an analysis is outstanding with its button on the screen,
\* after an earlier analysis has completed
C18_Witness ==
    /\ CallsOf("analysis") # {}
    /\ activeView = "AI_INSIGHTS"
    /\ aiAnalysis # NoAnalysis
    /\ \E call \in CallsOf("analysis") : call.n = 2

\* C19: the in-progress indicator of each AI advisory operation is true
\* exactly while a call of that operation is outstanding
C19_IndicatorWhileOutstanding ==
    /\ isAnalyzing <=> CallsOf("analysis") # {}
    /\ isGeneratingDesc <=> CallsOf("description") # {}
    /\ isSuggestingPrice <=> CallsOf("price") # {}

\* C19 witness: the description call has just completed with the fallback
\* and its indicator is off, while that of the price call, still
\* outstanding, is on
C19_Witness ==
    /\ lastOp.kind = "descriptionDone"
    /\ ~lastOp.rec[1].ok
    /\ ~isGeneratingDesc
    /\ isSuggestingPrice
    /\ CallsOf("price") # {}

\* C20: the select-all checkbox is indeterminate exactly when the selection
\* is not empty and some id of the filtered view is not selected, and
\* checked exactly when the filtered view is not empty and all its ids are
\* selected
C20_SelectAllCheckbox ==
    activeView = "INVENTORY" =>
        LET fv == filteredProducts(products, searchTerm, categoryFilter, stockFilter)
        IN  /\ isIndeterminate(fv, selectedIds)
                <=> (selectedIds # {} /\ \E id \in Ids(fv) : id \notin selectedIds)
            /\ selectAllChecked(fv, selectedIds)
                <=> (Ids(fv) # {} /\ Ids(fv) \subseteq selectedIds)


(***************************************************************************)
(* The selection across the catalog's operations, under Spec.              *)
(***************************************************************************)
\* C21: delete, add and update of a single product leave the selection as
\* it was, the id of a deleted product included; a batch action that is
\* handed an id no record has acts on the records of the other ids only
C21_SelectionKeptDanglingIgnored ==
    /\ lastOp.kind \in { "delete", "add", "update" } => selectedIds = lastOp.sel
    /\ (lastOp.kind = "batchDelete" /\ lastOp.confirmed) =>
         IsRestriction(products, lastOp.prev,
             { i \in 1..Len(lastOp.prev) : lastOp.prev[i].id \notin lastOp.ids })
    /\ lastOp.kind = "batchLowStock" =>
         /\ Len(products) = Len(lastOp.prev)
         /\ \A i \in 1..Len(products) :
               /\ products[i].id = lastOp.prev[i].id
               /\ products[i].id \notin lastOp.ids => products[i] = lastOp.prev[i]

\* C21 witness: a confirmed batch delete has just removed records although
\* the selection it was handed held the id of a product deleted before
C21_Witness ==
    /\ lastOp.kind = "batchDelete"
    /\ lastOp.confirmed
    /\ \E id \in lastOp.ids : id \notin Ids(lastOp.prev)
    /\ Len(products) < Len(lastOp.prev)


(***************************************************************************)
(* The dashboard's low-stock count and the stock filter, under SpecView.   *)
(***************************************************************************)
\* the number of records the stock filter bucket matches, search and
\* category filter being at their defaults
Matched(ps, bucket) == Len(filteredProducts(ps, "", "All", bucket))

\* C22: for a catalog whose quantities are all 0 or more, lowStockItems is
\* the number of records the 'Low Stock' filter matches plus the number the
\* 'Out of Stock' filter matches, and outOfStockItems <= lowStockItems <=
\* totalProducts
C22_LowStockCountVersusFilter ==
    (\A i \in 1..Len(products) : products[i].quantity >= 0) =>
        /\ stats(products).lowStockItems =
              Matched(products, "Low Stock") + Matched(products, "Out of Stock")
        /\ stats(products).outOfStockItems <= stats(products).lowStockItems
        /\ stats(products).lowStockItems <= stats(products).totalProducts

\* C22 witness: a catalog with a record of quantity 0 that the statistics
\* count as low stock and the 'Low Stock' filter leaves out, next to records
\* the filter matches and a record of quantity 10
C22_Witness ==
    /\ \A i \in 1..Len(products) : products[i].quantity >= 0
    /\ Matched(products, "Out of Stock") > 0
    /\ Matched(products, "Low Stock") > 0
    /\ Matched(products, "Low Stock") < stats(products).lowStockItems
    /\ \E i \in 1..Len(products) : products[i].quantity = 10


(***************************************************************************)
(* Batch delete declined, and late results of the form's AI calls, under   *)
(* Spec.                                                                   *)
(***************************************************************************)
\* C23: when the confirmation of a batch delete is declined, the catalog
\* and the selection are as they were before the action
C23_DeclinedBatchDeleteKeepsAll ==
    (lastOp.kind = "batchDelete" /\ ~lastOp.confirmed) =>
        /\ products = lastOp.prev
        /\ selectedIds = lastOp.sel

\* C24: a description or a price that arrives when the modal shows the form
\* of another product than the one the call was issued for (or a new
\* product's) leaves the form as it was
C24_LateResultOnlyInIssuingForm ==
    (/\ lastOp.kind \in { "descriptionDone", "suggestPriceDone" }
     /\ isModalOpen
     /\ lastOp.rec[2].editing # editingProduct)
        => formData = lastOp.rec[5]


(***************************************************************************)
(* The batch actions and the filtered view, under SpecTable.               *)
(***************************************************************************)
\* C25: a batch action acts on exactly the ids the selection holds when it
\* is invoked, whether or not their products are in the filtered view: a
\* confirmed batch delete leaves the records whose id is not selected, and
\* mark as low stock sets the quantity of every selected record to 5 and
\* leaves the others alone
C25_BatchActsOnWholeSelection ==
    /\ (lastOp.kind = "batchDelete" /\ lastOp.confirmed) =>
         IsRestriction(products, lastOp.prev,
             { i \in 1..Len(lastOp.prev) : lastOp.prev[i].id \notin lastOp.sel })
    /\ lastOp.kind = "batchLowStock" =>
         /\ Len(products) = Len(lastOp.prev)
         /\ \A i \in 1..Len(products) :
               IF lastOp.prev[i].id \in lastOp.sel
               THEN products[i].quantity = 5
               ELSE products[i] = lastOp.prev[i]

\* C25 witness: a confirmed batch delete has just removed a selected product
\* that the filtered view did not show, together with one it showed
C25_Witness ==
    LET shown == Ids(filteredProducts(lastOp.prev, searchTerm, categoryFilter, stockFilter))
    IN  /\ lastOp.kind = "batchDelete"
        /\ lastOp.confirmed
        /\ \E id \in lastOp.sel \cap Ids(lastOp.prev) :
              id \notin shown /\ id \notin Ids(products)
        /\ \E id \in lastOp.sel \cap shown : id \notin Ids(products)


(***************************************************************************)
(* The toolbar while products are selected, under Spec.                    *)
(***************************************************************************)
\* C26: while the table is on the screen with a selection that is not
\* empty, no step changes the search text, the category filter or the
\* stock filter and no step is an export; the filter specification of the
\* table changes only in states where the selection is empty.  (Leaving
\* the inventory view discards the table, filters and selection together;
\* the property is about the steps of a table that stays on the screen.)
C26_NoFilterChangeWhileSelected ==
    [][ (/\ activeView = "INVENTORY"
         /\ activeView' = "INVENTORY"
         /\ selectedIds # {})
        => /\ searchTerm' = searchTerm
           /\ categoryFilter' = categoryFilter
           /\ stockFilter' = stockFilter
           /\ download' = download
           /\ lastOp'.kind \notin { "setSearchTerm", "setCategoryFilter",
                                    "setStockFilter", "export" } ]_vars

\* C26 witness: a filtered table with a selection, the batch menu open, and
\* steps left to take
C26_Witness ==
    /\ activeView = "INVENTORY"
    /\ selectedIds # {}
    /\ searchTerm # ""
    /\ isBatchMenuOpen
    /\ steps < MaxSteps

=============================================================================
